---- MODULE Spec2Model ----
(***************************************************************************)
(* A model of main.py of WEB-Bible-Parser: the verse extractor             *)
(* extract_verses_from_html and the corpus walker process_and_save_books.  *)
(*                                                                         *)
(* A chapter document is a sequence of markup items in document order      *)
(* (pre-order), each naming its parent item; the parser turns it into the  *)
(* node table whose index order is bs4's next_element order.  A character  *)
(* is a record [c, n, m]: the character c, the node n it comes from and    *)
(* whether it is tag markup (m); n and m are bookkeeping the code's string *)
(* operations never look at.                                               *)
(***************************************************************************)
EXTENDS Integers, Sequences, FiniteSets, TLC

\* ------------------------------------------------------------------ bounds
\* The largest number of markup items of a chapter document.
MaxNodes == 4

\* The largest number of items of a document of texts, markers and zones.
MaxFlat == 4

\* ------------------------------------------------------------- characters
NBSP == "nbsp"
Whitespace == {" ", "\t", "\n", NBSP}
DigitChars == {"0", "1", "2", "3", "4", "5", "6", "7", "8", "9"}

DigitVal(c) ==
  CASE c = "0" -> 0 [] c = "1" -> 1 [] c = "2" -> 2 [] c = "3" -> 3
    [] c = "4" -> 4 [] c = "5" -> 5 [] c = "6" -> 6 [] c = "7" -> 7
    [] c = "8" -> 8 [] c = "9" -> 9

Ch(c, n, m) == [c |-> c, n |-> n, m |-> m]
IsWs(ch) == ch.c \in Whitespace

\* The texts a text unit of a document may hold, and the labels of a marker.
TextPool == { <<NBSP, "a", "\t", " ", "b", "\n">>, <<"c">>, <<"\n", " ">> }
LabelPool == { <<"5">>, <<" ", "1", "2">>, <<"x">> }
ElementKinds == {"a", "wj", "footnote", "copyright", "p"}
Zones == {"footnote", "copyright"}

\* ------------------------------------------------------ chapter documents
IsContainer(items, k) == items[k].kind \in ElementKinds

RECURSIVE OpenPath(_, _)
\* The items a next item may be a child of: the last item and its ancestors
\* that are elements, and 0, the content region itself.
OpenPath(items, k) ==
  IF k = 0 THEN {0}
  ELSE (IF IsContainer(items, k) THEN {k} ELSE {}) \cup OpenPath(items, items[k].parent)

\* The items that may follow: any text, marker or element under any open
\* element; a document has at most one zone of each kind.
NextItems(items, texts, labels, elements) ==
  LET used == {items[k].kind : k \in 1..Len(items)}
      kinds == {e \in elements : ~(e \in Zones /\ e \in used)}
  IN UNION { {[kind |-> "text", parent |-> p, txt |-> t] : t \in texts}
             \cup {[kind |-> "verse", parent |-> p, txt |-> l] : l \in labels}
             \cup {[kind |-> e, parent |-> p, txt |-> <<>>] : e \in kinds}
           : p \in OpenPath(items, Len(items)) }

Regions == {"main", "body", "none"}

\* The one text and the one label of the documents of nested elements.
TreeTexts == { <<"a", " ">> }
TreeLabels == { <<"5">> }

\* ---------------------------------------------------------------- parsing
TagName(kind) ==
  CASE kind \in {"verse", "wj"} -> "span"
    [] kind \in {"footnote", "copyright"} -> "div"
    [] kind = "a" -> "a"
    [] kind = "p" -> "p"
    [] OTHER -> ""

TagClass(kind) ==
  CASE kind \in {"verse", "wj", "footnote", "copyright"} -> <<kind>>
    [] OTHER -> <<>>

Stamp(txt, n) == [j \in 1..Len(txt) |-> Ch(txt[j], n, FALSE)]

RECURSIVE ParseItems(_, _, _, _)
\* The node table of the items from k on; at[j] is the node of item j.
ParseItems(items, k, nodes, at) ==
  IF k > Len(items) THEN nodes
  ELSE LET it == items[k]
           me == Len(nodes) + 1
           up == IF it.parent = 0 THEN 0 ELSE at[it.parent]
           tag == [isTag |-> TRUE, name |-> TagName(it.kind), cls |-> TagClass(it.kind),
                   parent |-> up, text |-> <<>>, alive |-> TRUE]
           str(p, t, n) == [isTag |-> FALSE, name |-> "", cls |-> <<>>,
                            parent |-> p, text |-> Stamp(t, n), alive |-> TRUE]
       IN IF it.kind = "text"
          THEN ParseItems(items, k + 1, Append(nodes, str(up, it.txt, me)), Append(at, me))
          ELSE IF it.kind = "verse" /\ it.txt # <<>>
          THEN ParseItems(items, k + 1,
                          Append(Append(nodes, tag), str(me, it.txt, me + 1)), Append(at, me))
          ELSE ParseItems(items, k + 1, Append(nodes, tag), Append(at, me))

BeautifulSoup(html) == ParseItems(html.items, 1, <<>>, <<>>)

\* ------------------------------------------------------------ tree access
HasClass(node, c) == \E j \in 1..Len(node.cls) : node.cls[j] = c

RECURSIVE Parents(_, _)
\* The proper ancestors of node k below the content region (bs4's .parents).
Parents(nodes, k) ==
  IF nodes[k].parent = 0 THEN {}
  ELSE {nodes[k].parent} \cup Parents(nodes, nodes[k].parent)

Alive(nodes) == {k \in 1..Len(nodes) : nodes[k].alive}

Least(S) == CHOOSE x \in S : \A y \in S : x <= y

\* bs4's next_element: the next node of the tree in document order; 0 is None.
NextElement(nodes, k) ==
  LET after == {j \in Alive(nodes) : j > k}
  IN IF after = {} THEN 0 ELSE Least(after)

RECURSIVE SeqOf(_)
\* The members of a set of numbers, in increasing order.
SeqOf(S) == IF S = {} THEN <<>> ELSE <<Least(S)>> \o SeqOf(S \ {Least(S)})

RECURSIVE Concat(_)
Concat(ss) == IF ss = <<>> THEN <<>> ELSE Head(ss) \o Concat(Tail(ss))

\* main_content.find_all('a')
FindAllLinks(nodes) ==
  {k \in Alive(nodes) : nodes[k].isTag /\ nodes[k].name = "a"}

\* The element leaves the tree and what is under it stays.
DecomposeKeepsText(nodes, k) ==
  [j \in 1..Len(nodes) |->
     IF j = k THEN [nodes[j] EXCEPT !.alive = FALSE] ELSE nodes[j]]

\* a.decompose(): the element and everything under it leave the tree.
Decompose(nodes, k) ==
  [j \in 1..Len(nodes) |->
     IF j = k \/ k \in Parents(nodes, j) THEN [nodes[j] EXCEPT !.alive = FALSE]
     ELSE nodes[j]]

RECURSIVE DecomposeEach(_, _)
DecomposeEach(nodes, links) ==
  IF links = <<>> THEN nodes
  ELSE DecomposeEach(Decompose(nodes, Head(links)), Tail(links))

\* for a in main_content.find_all('a'): a.decompose()
DecomposeLinks(nodes) == DecomposeEach(nodes, SeqOf(FindAllLinks(nodes)))

\* main_content.find('div', class_=c): the first such element, 0 for None.
FindDiv(nodes, c) ==
  LET hits == {k \in Alive(nodes) :
                 nodes[k].isTag /\ nodes[k].name = "div" /\ HasClass(nodes[k], c)}
  IN IF hits = {} THEN 0 ELSE Least(hits)

\* main_content.find_all('span', class_='verse'), in document order.
FindAllVerses(nodes) ==
  SeqOf({k \in Alive(nodes) :
           nodes[k].isTag /\ nodes[k].name = "span" /\ HasClass(nodes[k], "verse")})

\* ------------------------------------------------------------------ strings
RECURSIVE LStrip(_)
LStrip(s) == IF s # <<>> /\ IsWs(Head(s)) THEN LStrip(Tail(s)) ELSE s

RECURSIVE RStrip(_)
RStrip(s) ==
  IF s # <<>> /\ IsWs(s[Len(s)]) THEN RStrip(SubSeq(s, 1, Len(s) - 1)) ELSE s

\* str.strip()
Strip(s) == RStrip(LStrip(s))

\* str.replace('\xa0', ' ')
ReplaceNbsp(s) ==
  [j \in 1..Len(s) |-> IF s[j].c = NBSP THEN [s[j] EXCEPT !.c = " "] ELSE s[j]]

RECURSIVE SplitFrom(_, _, _)
\* str.split(): the maximal runs of non-whitespace characters.
SplitFrom(s, word, words) ==
  IF s = <<>> THEN (IF word = <<>> THEN words ELSE Append(words, word))
  ELSE IF IsWs(Head(s))
       THEN SplitFrom(Tail(s), <<>>, IF word = <<>> THEN words ELSE Append(words, word))
       ELSE SplitFrom(Tail(s), Append(word, Head(s)), words)

Split(s) == SplitFrom(s, <<>>, <<>>)

RECURSIVE Join(_, _)
\* sep.join(words)
Join(sep, words) ==
  IF words = <<>> THEN <<>>
  ELSE IF Len(words) = 1 THEN Head(words)
  ELSE Head(words) \o sep \o Join(sep, Tail(words))

Space == <<Ch(" ", 0, FALSE)>>

\* Lines 83-85 and the strip of line 88.
NormalizeNoCollapse(raw) == ReplaceNbsp(Strip(raw))

Normalize(raw) == Strip(Join(Space, Split(ReplaceNbsp(Strip(raw)))))

Chars(s) == [j \in 1..Len(s) |-> s[j].c]

RECURSIVE DigitsValue(_, _)
DigitsValue(cs, acc) ==
  IF cs = <<>> THEN acc ELSE DigitsValue(Tail(cs), 10 * acc + DigitVal(Head(cs)))

\* int(s): surrounding whitespace and a sign are accepted; ok is FALSE for
\* a ValueError.
IntParse(s) ==
  LET t == Chars(Strip(s))
      signed == t # <<>> /\ Head(t) \in {"+", "-"}
      ds == IF signed THEN Tail(t) ELSE t
      ok == ds # <<>> /\ \A j \in 1..Len(ds) : ds[j] \in DigitChars
      mag == IF ok THEN DigitsValue(ds, 0) ELSE 0
  IN [ok |-> ok, val |-> IF signed /\ Head(t) = "-" THEN 0 - mag ELSE mag]

\* tag.get_text(strip=True): the stripped, non-empty strings under the tag.
GetTextStrip(nodes, k) ==
  LET under == SeqOf({j \in Alive(nodes) : ~nodes[j].isTag /\ k \in Parents(nodes, j)})
  IN Concat([j \in 1..Len(under) |-> Strip(nodes[under[j]].text)])

\* ------------------------------------------------------------- str(tag)
OpenTag(nodes, k) ==
  LET nd == nodes[k]
  IN IF nd.cls = <<>> THEN <<Ch("<" \o nd.name \o ">", k, TRUE)>>
     ELSE <<Ch("<" \o nd.name, k, TRUE), Ch(" ", k, TRUE),
            Ch("class=\"" \o nd.cls[1] \o "\">", k, TRUE)>>

CloseTag(nodes, k) == <<Ch("</" \o nodes[k].name \o ">", k, TRUE)>>

Children(nodes, k) == SeqOf({j \in Alive(nodes) : nodes[j].parent = k})

RECURSIVE Decode(_, _)
\* str(element): the element's markup, its tags and everything inside them.
Decode(nodes, k) ==
  IF ~nodes[k].isTag THEN nodes[k].text
  ELSE LET kids == Children(nodes, k)
       IN OpenTag(nodes, k)
            \o Concat([j \in 1..Len(kids) |-> Decode(nodes, kids[j])])
            \o CloseTag(nodes, k)

RECURSIVE TextOf(_, _)
\* element.get_text(): the strings under the element, without markup.
TextOf(nodes, k) ==
  IF ~nodes[k].isTag THEN nodes[k].text
  ELSE LET kids == Children(nodes, k)
       IN Concat([j \in 1..Len(kids) |-> TextOf(nodes, kids[j])])

\* --------------------------------------------------- extract_verses_from_html
\* Line 71: a span whose class list is exactly ['wj'].
IsEmphasis(node) == node.isTag /\ node.name = "span" /\ node.cls = <<"wj">>

\* Lines 58-68: the element is a zone, or lies inside one.
InExcludedSection(nodes, cur, fn, cp) ==
  \/ fn # 0 /\ cur = fn
  \/ cp # 0 /\ cur = cp
  \/ fn # 0 /\ fn \in Parents(nodes, cur)
  \/ cp # 0 /\ cp \in Parents(nodes, cur)

\* Lines 74-79: the string's parent is a span of class wj or verse.
IsExcludedParent(nodes, cur) ==
  LET up == nodes[cur].parent
  IN up # 0 /\ nodes[up].isTag /\ nodes[up].name = "span"
       /\ (HasClass(nodes[up], "wj") \/ HasClass(nodes[up], "verse"))

\* Lines 70-81: what one element of the walk adds to content_parts.
Contribution(nodes, cur) ==
  IF nodes[cur].isTag
  THEN (IF IsEmphasis(nodes[cur]) THEN Decode(nodes, cur) ELSE <<>>)
  ELSE (IF IsExcludedParent(nodes, cur) THEN <<>> ELSE nodes[cur].text)

RECURSIVE Walk(_, _, _, _, _, _)
\* Lines 53-81: the walk from current_element on; stop is the next marker
\* (0 when the marker is the last one).
Walk(nodes, current_element, stop, fn, cp, content_parts) ==
  LET cur == NextElement(nodes, current_element)
  IN IF cur = 0 THEN content_parts
     ELSE IF stop # 0 /\ cur = stop THEN content_parts
     ELSE IF InExcludedSection(nodes, cur, fn, cp) THEN content_parts
     ELSE Walk(nodes, cur, stop, fn, cp, content_parts \o Contribution(nodes, cur))

\* Lines 50-83: ''.join(content_parts) of the marker verse_tags[i].
CollectParts(nodes, tags, i, fn, cp) ==
  Walk(nodes, tags[i], IF i + 1 <= Len(tags) THEN tags[i + 1] ELSE 0, fn, cp, <<>>)

\* A mapping that keeps the value a key already has.
PutKeepsFirst(dict, key, val) ==
  [k \in DOMAIN dict \cup {key} |-> IF k \in DOMAIN dict THEN dict[k] ELSE val]

\* Line 88: verses_dict[verse_num] = final_text.
Put(dict, key, val) ==
  [k \in DOMAIN dict \cup {key} |-> IF k = key THEN val ELSE dict[k]]

EmptyDict == [k \in {} |-> <<>>]

NoneResult == [kind |-> "none", val |-> EmptyDict]

\* An iteration that records a marker whatever text it collected.
VerseStepKeepsEmpty(nodes, tags, i, fn, cp, dict) ==
  LET label == IntParse(GetTextStrip(nodes, tags[i]))
      text == Normalize(CollectParts(nodes, tags, i, fn, cp))
  IN IF ~label.ok THEN dict ELSE Put(dict, label.val, text)

\* An iteration that gives up the verses collected so far on a bad label.
VerseStepDropsOnBadLabel(nodes, tags, i, fn, cp, dict) ==
  LET label == IntParse(GetTextStrip(nodes, tags[i]))
      text == Normalize(CollectParts(nodes, tags, i, fn, cp))
  IN IF ~label.ok THEN EmptyDict
     ELSE IF text # <<>> THEN Put(dict, label.val, text)
     ELSE dict

\* Lines 43-88: one iteration of the loop over the markers.
VerseStep(nodes, tags, i, fn, cp, dict) ==
  LET label == IntParse(GetTextStrip(nodes, tags[i]))
      text == Normalize(CollectParts(nodes, tags, i, fn, cp))
  IN IF ~label.ok THEN dict
     ELSE IF text # <<>> THEN Put(dict, label.val, text)
     ELSE dict

RECURSIVE VerseLoop(_, _, _, _, _, _)
VerseLoop(nodes, tags, i, fn, cp, dict) ==
  IF i > Len(tags) THEN dict
  ELSE VerseLoop(nodes, tags, i + 1, fn, cp, VerseStep(nodes, tags, i, fn, cp, dict))

\* Line 94.
Returned(dict) ==
  IF dict = EmptyDict THEN NoneResult ELSE [kind |-> "dict", val |-> dict]

\* The whole function, for its callers.
ExtractVerses(h) ==
  IF h.region = "none" THEN NoneResult
  ELSE LET nodes == DecomposeLinks(BeautifulSoup(h))
           tags == FindAllVerses(nodes)
       IN IF tags = <<>> THEN NoneResult
          ELSE Returned(VerseLoop(nodes, tags, 1, FindDiv(nodes, "footnote"),
                                  FindDiv(nodes, "copyright"), EmptyDict))

\* ------------------------------------------------------------------- state
VARIABLES
  html,          \* the chapter document handed to the extractor
  soup,          \* the parsed tree (node table)
  pc,            \* where the extractor is
  footnote_div,  \* line 36 (0 is None)
  copyright_div, \* line 37
  verse_tags,    \* line 39
  i,             \* the loop index of line 43, from 1
  verses_dict,   \* line 24
  seen,          \* per marker handled: its label, raw content and text
  ret            \* the returned value

evars == <<html, soup, pc, footnote_div, copyright_div, verse_tags, i,
           verses_dict, seen, ret>>

VARIABLES
  index,                        \* the index document: its state and links
  wpc,                          \* where the walker is
  li,                           \* the link of the loop of line 130, from 1
  book,                         \* the book of the link: lines 141-147
  chapter_num,                  \* line 150
  chapters_processed_for_book,  \* line 149
  processed_books_count,        \* line 114
  total_chapters_saved,         \* line 115
  dirs,                         \* the book directories that exist
  files,                        \* the JSON files written in full
  log,                          \* the messages written to stderr
  requests,                     \* every chapter file opened, with what came of it
  success                       \* the returned value

wvars == <<index, wpc, li, book, chapter_num, chapters_processed_for_book,
           processed_books_count, total_chapters_saved, dirs, files, log,
           requests, success>>

vars == <<evars, wvars>>

Pending == [kind |-> "pending", val |-> EmptyDict]

RECURSIVE Chapter(_, _, _, _, _, _)
\* html is a document of region r that extends the items by at most n more.
Chapter(r, items, n, texts, labels, elements) ==
  \/ html = [region |-> r, items |-> items]
  \/ /\ n > 0
     /\ \E it \in NextItems(items, texts, labels, elements) :
          Chapter(r, Append(items, it), n - 1, texts, labels, elements)

\* Documents of nested elements in a div.main, with one text, one label and at
\* most one zone, the footnote zone.
TreeDocs ==
  Chapter("main", <<>>, MaxNodes, TreeTexts, TreeLabels, ElementKinds \ {"copyright"})

\* Documents of texts, markers and the two zones, of every text and label, in
\* a body without a div.main.
TextDocs == Chapter("body", <<>>, MaxFlat, TextPool, LabelPool, Zones)

\* Documents with neither a div.main nor a body: empty, or of one item.
BareDocs == Chapter("none", <<>>, 1, TextPool, LabelPool, Zones)

\* Lines 26-31: parse, and find the content region.
Parse ==
  /\ UNCHANGED wvars
  /\ pc = "parse"
  /\ soup' = BeautifulSoup(html)
  /\ IF html.region = "none"
     THEN pc' = "done" /\ ret' = NoneResult
     ELSE pc' = "links" /\ ret' = ret
  /\ UNCHANGED <<html, footnote_div, copyright_div, verse_tags, i, verses_dict, seen>>

\* Lines 33-34.
RemoveLinks ==
  /\ UNCHANGED wvars
  /\ pc = "links"
  /\ soup' = DecomposeLinks(soup)
  /\ pc' = "find"
  /\ UNCHANGED <<html, footnote_div, copyright_div, verse_tags, i, verses_dict, seen, ret>>

\* Lines 36-41.
FindMarkers ==
  /\ UNCHANGED wvars
  /\ pc = "find"
  /\ footnote_div' = FindDiv(soup, "footnote")
  /\ copyright_div' = FindDiv(soup, "copyright")
  /\ verse_tags' = FindAllVerses(soup)
  /\ IF verse_tags' = <<>>
     THEN pc' = "done" /\ ret' = NoneResult
     ELSE pc' = "loop" /\ ret' = ret
  /\ UNCHANGED <<html, soup, i, verses_dict, seen>>

\* Lines 43-88: the iteration for verse_tags[i].
ProcessVerse ==
  /\ UNCHANGED wvars
  /\ pc = "loop"
  /\ i <= Len(verse_tags)
  /\ LET label == IntParse(GetTextStrip(soup, verse_tags[i]))
         raw == CollectParts(soup, verse_tags, i, footnote_div, copyright_div)
     IN seen' = Append(seen, [tag |-> verse_tags[i], ok |-> label.ok, num |-> label.val,
                              raw |-> IF label.ok THEN raw ELSE <<>>,
                              text |-> IF label.ok THEN Normalize(raw) ELSE <<>>])
  /\ verses_dict' = VerseStep(soup, verse_tags, i, footnote_div, copyright_div, verses_dict)
  /\ i' = i + 1
  /\ UNCHANGED <<html, soup, pc, footnote_div, copyright_div, verse_tags, ret>>

\* Line 94.
Return ==
  /\ UNCHANGED wvars
  /\ pc = "loop"
  /\ i > Len(verse_tags)
  /\ ret' = Returned(verses_dict)
  /\ pc' = "done"
  /\ UNCHANGED <<html, soup, footnote_div, copyright_div, verse_tags, i, verses_dict, seen>>


\* ------------------------------------------------------ process_and_save_books
\* The most chapter files a book has.
MaxChapters == 2

\* The most links of the index's book list.
MaxBooks == 2

HTM == ".htm"
JSON == ".json"

Upper(c) ==
  CASE c = "g" -> "G" [] c = "j" -> "J" [] c = "x" -> "X" [] OTHER -> c

Letter(c) == c \in {"G", "J", "X", "g", "j", "x"}

DigitChar(d) ==
  CASE d = 0 -> "0" [] d = 1 -> "1" [] d = 2 -> "2" [] d = 3 -> "3" [] d = 4 -> "4"
    [] d = 5 -> "5" [] d = 6 -> "6" [] d = 7 -> "7" [] d = 8 -> "8" [] d = 9 -> "9"

RECURSIVE DigitsOf(_)
\* The decimal digits of a number.
DigitsOf(num) ==
  IF num < 10 THEN <<DigitChar(num)>>
  ELSE Append(DigitsOf(num \div 10), DigitChar(num % 10))

RECURSIVE Zeros(_)
Zeros(n) == IF n <= 0 THEN <<>> ELSE <<"0">> \o Zeros(n - 1)

\* The number printed without padding.
FormatPlain(num, padding) == DigitsOf(num)

\* Line 152: f"{chapter_num:0{padding}d}".
Format(num, padding) ==
  LET ds == DigitsOf(num) IN Zeros(padding - Len(ds)) \o ds

\* Line 138: re.match(r"([A-Z1-9]+)(\d+)\.htm$", href, re.IGNORECASE); the
\* first group is greedy and gives back characters until the rest is digits.
ReMatch(href) ==
  LET n == Len(href)
      x == SubSeq(href, 1, n - 1)
      inClass(c) == Letter(c) \/ (c \in DigitChars /\ c # "0")
      splits == {g \in 1..(Len(x) - 1) :
                   /\ \A j \in 1..g : inClass(x[j])
                   /\ \A j \in (g + 1)..Len(x) : x[j] \in DigitChars}
  IN IF n = 0 \/ href[n] # HTM \/ splits = {}
     THEN [ok |-> FALSE, g1 |-> <<>>, g2 |-> <<>>]
     ELSE LET g == CHOOSE k \in splits : \A y \in splits : y <= k
          IN [ok |-> TRUE, g1 |-> SubSeq(x, 1, g), g2 |-> SubSeq(x, g + 1, Len(x))]

\* Lines 141-144.
BookOf(link) ==
  LET m == ReMatch(link.href)
  IN [book_name |-> link.name,
      base_code |-> [j \in 1..Len(m.g1) |-> Upper(m.g1[j])],
      padding |-> Len(m.g2),
      start_chapter |-> DigitsValue(m.g2, 0)]

\* Lines 131-139: the link is one of a book and its target names a chapter.
IsBookLink(link) ==
  /\ link.cls \in {"oo", "nn"}
  /\ link.name # ""
  /\ link.href # <<>>
  /\ ReMatch(link.href).ok

\* Line 153.
ChapterFile(b, num) == b.base_code \o Format(num, b.padding) \o <<HTM>>

\* Line 174: f"{chapter_num}.json".
JsonFile(num) == DigitsOf(num) \o <<JSON>>

LinkPool ==
  { [cls |-> "oo", name |-> "Genesis", href |-> <<"G", "0", "1", HTM>>],
    [cls |-> "nn", name |-> "Jude", href |-> <<"j", "9", HTM>>],
    [cls |-> "xx", name |-> "Help", href |-> <<"G", "0", "1", HTM>>],
    [cls |-> "oo", name |-> "Glossary", href |-> <<"x", HTM>>] }

\* The chapter documents of the corpus.
GoodChapter ==
  [region |-> "main",
   items |-> <<[kind |-> "verse", parent |-> 0, txt |-> <<"5">>],
               [kind |-> "text", parent |-> 0, txt |-> <<"c">>]>>]
BareChapter ==
  [region |-> "main", items |-> <<[kind |-> "text", parent |-> 0, txt |-> <<"c">>]>>]
EmptyVerseChapter ==
  [region |-> "main", items |-> <<[kind |-> "verse", parent |-> 0, txt |-> <<"5">>]>>]
ChapterPool == {GoodChapter, BareChapter, EmptyVerseChapter}

\* Line 160, for each chapter document of the corpus.
Extracted == [d \in ChapterPool |-> ExtractVerses(d)]


NoBook == [book_name |-> "", base_code |-> <<>>, padding |-> 0, start_chapter |-> 0]

RECURSIVE Links(_, _)
\* index.links is a sequence of at most n more distinct links.
Links(ls, n) ==
  \/ index = [state |-> "ok", links |-> ls]
  \/ /\ n > 0
     /\ \E l \in LinkPool \ {ls[j] : j \in 1..Len(ls)} : Links(Append(ls, l), n - 1)

\* Lines 102-128: the index and the output directory.
Start ==
  /\ UNCHANGED evars
  /\ wpc = "start"
  /\ \/ \* lines 104-106: no index file
        /\ index.state = "missing"
        /\ log' = Append(log, [what |-> "index", link |-> 0, num |-> 0])
        /\ success' = FALSE /\ wpc' = "done"
     \/ \* lines 108-112: the output directory cannot be made
        /\ index.state # "missing"
        /\ log' = Append(log, [what |-> "outdir", link |-> 0, num |-> 0])
        /\ success' = FALSE /\ wpc' = "done"
     \/ \* lines 117-125 and 199-201: the index cannot be read or lists no books
        /\ index.state \in {"unreadable", "nolist"}
        /\ log' = Append(log, [what |-> "index", link |-> 0, num |-> 0])
        /\ success' = FALSE /\ wpc' = "done"
     \/ \* lines 127-128
        /\ index.state = "ok"
        /\ log' = log /\ success' = success /\ wpc' = "links"
  /\ UNCHANGED <<index, li, book, chapter_num, chapters_processed_for_book,
                 processed_books_count, total_chapters_saved, dirs, files, requests>>

\* Lines 130-139: a link that is not one of a book is passed over.
SkipLink ==
  /\ UNCHANGED evars
  /\ wpc = "links"
  /\ li <= Len(index.links)
  /\ ~IsBookLink(index.links[li])
  /\ li' = li + 1
  /\ UNCHANGED <<index, wpc, book, chapter_num, chapters_processed_for_book,
                 processed_books_count, total_chapters_saved, dirs, files, log,
                 requests, success>>

\* Lines 130-150: the book of a link.
OpenBook ==
  /\ UNCHANGED evars
  /\ wpc = "links"
  /\ li <= Len(index.links)
  /\ IsBookLink(index.links[li])
  /\ book' = BookOf(index.links[li])
  /\ chapters_processed_for_book' = 0
  /\ chapter_num' = book'.start_chapter
  /\ wpc' = "chapter"
  /\ UNCHANGED <<index, li, processed_books_count, total_chapters_saved, dirs,
                 files, log, requests, success>>

\* The directory is made for the first chapter, with verses or without.
MakesDirAlways(verses, processed) == processed = 0

\* Lines 162-164: the book directory is made for a chapter with verses while
\* no chapter of the book has been saved.
MakesDir(verses, processed) == verses.kind = "dict" /\ processed = 0

\* What came of opening a chapter file: the outcome, the kind of the
\* extractor's result and the chapters of the book saved so far.
Request(outcome, got, saved) ==
  [link |-> li, name |-> ChapterFile(book, chapter_num), num |-> chapter_num,
   outcome |-> outcome, got |-> got, saved |-> saved]

Message(what) == [what |-> what, link |-> li, num |-> chapter_num]

Asked == Cardinality({k \in 1..Len(requests) : requests[k].link = li})

\* Lines 194-197 and the step to the next link.
CloseBook ==
  /\ processed_books_count' =
       processed_books_count + (IF chapters_processed_for_book > 0 THEN 1 ELSE 0)
  /\ total_chapters_saved' = total_chapters_saved + chapters_processed_for_book
  /\ li' = li + 1
  /\ wpc' = "links"
  /\ UNCHANGED <<chapter_num, chapters_processed_for_book>>

\* The loop goes on to the next chapter.
NextChapter ==
  /\ chapter_num' = chapter_num + 1
  /\ UNCHANGED <<processed_books_count, total_chapters_saved, li, wpc,
                 chapters_processed_for_book>>

\* Lines 190-192 keep to the book after a chapter that cannot be read.
AfterReadErrorGoesOn == NextChapter

\* Lines 190-192: a chapter file that cannot be read ends the book (break).
AfterReadError == CloseBook

\* Lines 156-158 and 188-189: the chapter file is absent.
ChapterAbsent ==
  /\ UNCHANGED evars
  /\ wpc = "chapter"
  /\ requests' = Append(requests, Request("absent", "nofile", chapters_processed_for_book))
  /\ CloseBook
  /\ UNCHANGED <<index, book, dirs, files, log, success>>

\* Lines 156-158 and 190-192: the chapter file cannot be read.
ChapterUnreadable ==
  /\ UNCHANGED evars
  /\ wpc = "chapter"
  /\ Asked < MaxChapters
  /\ requests' = Append(requests, Request("unreadable", "error", chapters_processed_for_book))
  /\ log' = Append(log, Message("read"))
  /\ AfterReadError
  /\ UNCHANGED <<index, book, dirs, files, success>>

\* Lines 156-186: the chapter file is read and has no verses.
ChapterWithoutVerses ==
  /\ UNCHANGED evars
  /\ wpc = "chapter"
  /\ Asked < MaxChapters
  /\ \E file_content \in ChapterPool :
       LET verses == Extracted[file_content]
       IN /\ verses.kind # "dict"
          /\ dirs' = IF MakesDir(verses, chapters_processed_for_book)
                     THEN dirs \cup {book.book_name} ELSE dirs
          /\ requests' = Append(requests,
                                Request("none", verses.kind, chapters_processed_for_book))
  /\ NextChapter
  /\ UNCHANGED <<index, book, files, log, success>>

\* Lines 156-170: the book directory of a chapter with verses cannot be made.
BookDirFails ==
  /\ UNCHANGED evars
  /\ wpc = "chapter"
  /\ Asked < MaxChapters
  /\ \E file_content \in ChapterPool :
       LET verses == Extracted[file_content]
       IN /\ verses.kind = "dict"
          /\ MakesDir(verses, chapters_processed_for_book)
          /\ book.book_name \notin dirs
          /\ requests' = Append(requests,
                                Request("mkdirfail", verses.kind, chapters_processed_for_book))
  /\ log' = Append(log, Message("mkdir"))
  /\ CloseBook
  /\ UNCHANGED <<index, book, dirs, files, success>>

\* Lines 156-186: the chapter's verses are written to its JSON file.
ChapterSaved ==
  /\ UNCHANGED evars
  /\ wpc = "chapter"
  /\ Asked < MaxChapters
  /\ \E file_content \in ChapterPool :
       LET verses == Extracted[file_content]
       IN /\ verses.kind = "dict"
          /\ dirs' = IF MakesDir(verses, chapters_processed_for_book)
                     THEN dirs \cup {book.book_name} ELSE dirs
          /\ files' = files \cup {[dir |-> book.book_name, file |-> JsonFile(chapter_num),
                                   content |-> verses.val]}
          /\ requests' = Append(requests,
                                Request("saved", verses.kind, chapters_processed_for_book + 1))
  /\ chapters_processed_for_book' = chapters_processed_for_book + 1
  /\ chapter_num' = chapter_num + 1
  /\ UNCHANGED <<index, book, processed_books_count, total_chapters_saved, li, wpc,
                 log, success>>

\* Lines 156-186: writing the JSON file fails (open or json.dump raises); the
\* chapter is not counted and its file is not among the written ones.
WriteFails ==
  /\ UNCHANGED evars
  /\ wpc = "chapter"
  /\ Asked < MaxChapters
  /\ \E file_content \in ChapterPool :
       LET verses == Extracted[file_content]
       IN /\ verses.kind = "dict"
          /\ dirs' = IF MakesDir(verses, chapters_processed_for_book)
                     THEN dirs \cup {book.book_name} ELSE dirs
          /\ requests' = Append(requests,
                                Request("writefail", verses.kind, chapters_processed_for_book))
  /\ log' = Append(log, Message("write"))
  /\ NextChapter
  /\ UNCHANGED <<index, book, files, success>>

\* Lines 203-204.
Finish ==
  /\ UNCHANGED evars
  /\ wpc = "links"
  /\ li > Len(index.links)
  /\ success' = TRUE
  /\ wpc' = "done"
  /\ UNCHANGED <<index, li, book, chapter_num, chapters_processed_for_book,
                 processed_books_count, total_chapters_saved, dirs, files, log, requests>>

NextWalk ==
  \/ Start \/ SkipLink \/ OpenBook \/ ChapterAbsent \/ ChapterUnreadable
  \/ ChapterWithoutVerses \/ BookDirFails \/ ChapterSaved \/ WriteFails \/ Finish

\* ------------------------------------------------------------ specifications
\* The extractor's start, the walker at rest.
Init ==
  /\ TreeDocs \/ TextDocs \/ BareDocs
  /\ soup = <<>>
  /\ pc = "parse"
  /\ footnote_div = 0
  /\ copyright_div = 0
  /\ verse_tags = <<>>
  /\ i = 1
  /\ verses_dict = EmptyDict
  /\ seen = <<>>
  /\ ret = Pending
  /\ index = [state |-> "missing", links |-> <<>>]
  /\ wpc = "idle"
  /\ li = 1
  /\ book = NoBook
  /\ chapter_num = 0
  /\ chapters_processed_for_book = 0
  /\ processed_books_count = 0
  /\ total_chapters_saved = 0
  /\ dirs = {}
  /\ files = {}
  /\ log = <<>>
  /\ requests = <<>>
  /\ success = "running"

\* The walker's start, the extractor at rest.
InitWalk ==
  /\ \/ index \in {[state |-> st, links |-> <<>>] : st \in {"missing", "unreadable", "nolist"}}
     \/ Links(<<>>, MaxBooks)
  /\ wpc = "start"
  /\ li = 1
  /\ book = NoBook
  /\ chapter_num = 0
  /\ chapters_processed_for_book = 0
  /\ processed_books_count = 0
  /\ total_chapters_saved = 0
  /\ dirs = {}
  /\ files = {}
  /\ log = <<>>
  /\ requests = <<>>
  /\ success = "running"
  /\ html = [region |-> "none", items |-> <<>>]
  /\ soup = <<>>
  /\ pc = "idle"
  /\ footnote_div = 0
  /\ copyright_div = 0
  /\ verse_tags = <<>>
  /\ i = 1
  /\ verses_dict = EmptyDict
  /\ seen = <<>>
  /\ ret = Pending

NextExtract == Parse \/ RemoveLinks \/ FindMarkers \/ ProcessVerse \/ Return

\* The extractor on one chapter document.
Spec == Init /\ [][NextExtract]_vars

\* The walker over an index and its chapter files.
SpecWalk == InitWalk /\ [][NextWalk]_vars

\* ------------------------------------------------------------------ claims
Done == pc = "done"
IsZone(node) == node.isTag /\ node.name = "div"
                  /\ (HasClass(node, "footnote") \/ HasClass(node, "copyright"))
InZone(nodes, k) == IsZone(nodes[k]) \/ \E p \in Parents(nodes, k) : IsZone(nodes[p])
IsLink(node) == node.isTag /\ node.name = "a"
InLink(nodes, k) == IsLink(nodes[k]) \/ \E p \in Parents(nodes, k) : IsLink(nodes[p])
Keys == DOMAIN ret.val
Marks == 1..Len(seen)
NotWs(ch) == ~IsWs(ch)
Letters(s) == SelectSeq(s, NotWs)
Occurrences(s, ch) == Cardinality({j \in 1..Len(s) : s[j] = ch})

\* C1: no text of the footnote zone or of the copyright zone, nor of anything
\* inside either, appears in the text of a returned verse.
C1_ZoneTextExcluded ==
  Done /\ ret.kind = "dict" =>
    \A key \in Keys : \A j \in 1..Len(ret.val[key]) :
      LET ch == ret.val[key][j]
      IN ch.n # 0 /\ ~ch.m => ~InZone(soup, ch.n)

RECURSIVE Met(_, _, _, _, _)
\* The nodes the walk of a marker visits before it stops.
Met(nodes, current_element, stop, fn, cp) ==
  LET cur == NextElement(nodes, current_element)
  IN IF cur = 0 \/ (stop # 0 /\ cur = stop) \/ InExcludedSection(nodes, cur, fn, cp)
     THEN {}
     ELSE {cur} \cup Met(nodes, cur, stop, fn, cp)

MetBy(m) ==
  Met(soup, verse_tags[m], IF m + 1 <= Len(verse_tags) THEN verse_tags[m + 1] ELSE 0,
      footnote_div, copyright_div)

\* C2: a verse's text holds the text of every emphasis wrapper met on its walk
\* exactly once, and none of the wrapper's markup.
C2_EmphasisFlattened ==
  \A m \in Marks : seen[m].ok =>
    \A w \in {k \in MetBy(m) : soup[k].isTag /\ soup[k].name = "span"
                                 /\ HasClass(soup[k], "wj")} :
      /\ \A j \in 1..Len(seen[m].text) : ~(seen[m].text[j].m /\ seen[m].text[j].n = w)
      /\ LET inner == Letters(TextOf(soup, w))
         IN \A j \in 1..Len(inner) : Occurrences(seen[m].text, inner[j]) = 1

\* C3: text that lies inside a hyperlink of the content region is in no
\* returned verse.
C3_LinkTextAbsent ==
  Done /\ ret.kind = "dict" =>
    \A key \in Keys : \A j \in 1..Len(ret.val[key]) :
      LET ch == ret.val[key][j]
      IN ch.n # 0 => ~InLink(soup, ch.n)

\* A verse is returned whose marker stands before a hyperlink that holds text
\* and whose text goes on after the hyperlink.
C3_Witness ==
  /\ Done /\ ret.kind = "dict"
  /\ \E key \in Keys : \E k \in 1..Len(soup) :
       /\ ~soup[k].isTag /\ InLink(soup, k) /\ Letters(soup[k].text) # <<>>
       /\ \E j \in 1..Len(ret.val[key]) : ret.val[key][j].n > k
       /\ \E m \in Marks : seen[m].ok /\ seen[m].num = key /\ seen[m].tag < k

\* The label reads as a decimal integer once surrounding whitespace is gone.
Parseable(label) ==
  LET cs == Chars(Letters(label))
  IN /\ Letters(label) = Strip(label)
     /\ cs # <<>>
     /\ \A j \in 1..Len(cs) : cs[j] \in DigitChars

LabelOf(m) == GetTextStrip(soup, seen[m].tag)
Recorded == {m \in Marks : Parseable(LabelOf(m)) /\ Letters(seen[m].raw) # <<>>}
Valid == html.region # "none"
AllSeen == Len(seen) = Len(verse_tags)

\* C4 as stated: a valid document with a marker of parseable label gives a
\* mapping, whose keys are the numbers of the markers with text.
C4_KeysAsStated ==
  Done /\ Valid /\ (\E m \in Marks : Parseable(LabelOf(m))) =>
    ret.kind = "dict" /\ Keys = {seen[m].num : m \in Recorded}

\* C4: a valid document with a marker of parseable label gives NONE when no
\* such marker collects text, and otherwise a mapping whose keys are exactly the
\* numbers of the markers of parseable label with text.
C4_KeysOfMarkersWithText ==
  Done /\ Valid /\ (\E m \in Marks : Parseable(LabelOf(m))) =>
    IF Recorded = {} THEN ret = NoneResult
    ELSE ret.kind = "dict" /\ Keys = {seen[m].num : m \in Recorded}

\* A mapping is returned for a document with a marker that collected nothing
\* and a marker whose label is no integer.
C4_Witness ==
  /\ Done /\ Valid /\ ret.kind = "dict"
  /\ \E m \in Marks : Parseable(LabelOf(m)) /\ m \notin Recorded
  /\ \E m \in Marks : ~Parseable(LabelOf(m))
  /\ Cardinality(Keys) >= 1

Greatest(S) == CHOOSE x \in S : \A y \in S : y <= x
Numbered(n) == {m \in Marks : seen[m].ok /\ seen[m].num = n}
Repeated == {seen[m].num : m \in {x \in Marks : seen[x].ok /\ Cardinality(Numbered(seen[x].num)) >= 2}}

\* C5 as stated: a number carried by several markers has one entry, the text
\* of the last of them.
C5_LastMarkerWins ==
  Done /\ AllSeen =>
    \A n \in Repeated :
      ret.kind = "dict" /\ n \in Keys /\ ret.val[n] = seen[Greatest(Numbered(n))].text

\* C5: a number carried by several markers has the text of the last of them
\* that collected text, and no entry when none of them did.
C5_LastMarkerWithTextWins ==
  Done /\ AllSeen =>
    \A n \in Repeated :
      LET full == {m \in Numbered(n) : Letters(seen[m].raw) # <<>>}
      IN IF full = {} THEN n \notin Keys
         ELSE ret.kind = "dict" /\ n \in Keys /\ ret.val[n] = seen[Greatest(full)].text

\* Two markers of one number both collected text, and the later text is kept.
C5_Witness ==
  /\ Done /\ ret.kind = "dict"
  /\ \E a, b \in Marks :
       /\ a < b /\ seen[a].ok /\ seen[b].ok /\ seen[a].num = seen[b].num
       /\ seen[a].text # <<>> /\ seen[b].text # <<>> /\ seen[a].text # seen[b].text
       /\ ret.val[seen[b].num] = seen[b].text

\* Whether whitespace separates each letter of s from the next one.
Gaps(s) ==
  LET at == SeqOf({j \in 1..Len(s) : ~IsWs(s[j])})
  IN [k \in 1..(Len(at) - 1) |-> at[k + 1] > at[k] + 1]

\* C6: a verse text is its raw content with every run of whitespace between
\* two letters turned into one space and the runs at its ends removed.
C6_WhitespaceNormalized ==
  \A m \in Marks : seen[m].ok =>
    LET t == seen[m].text
        r == seen[m].raw
    IN /\ \A j \in 1..Len(t) : t[j].c \notin {"\t", "\n", NBSP}
       /\ t # <<>> => t[1].c # " " /\ t[Len(t)].c # " "
       /\ \A j \in 1..(Len(t) - 1) : ~(t[j].c = " " /\ t[j + 1].c = " ")
       /\ Letters(t) = Letters(r)
       /\ Gaps(t) = Gaps(r)
       /\ (t # <<>> /\ Done /\ AllSeen /\ ret.kind = "dict" /\ seen[m].num \in Keys
             /\ m = Greatest({x \in Numbered(seen[m].num) : seen[x].text # <<>>})
           => ret.val[seen[m].num] = t)

\* A recorded verse whose raw content starts and ends with whitespace and
\* holds a run of several whitespace characters, a non-breaking space, a tab
\* and a newline among them.
C6_Witness ==
  \E m \in Marks :
    /\ seen[m].ok /\ seen[m].text # <<>>
    /\ LET r == seen[m].raw
       IN /\ IsWs(r[1]) /\ IsWs(r[Len(r)])
          /\ \E j \in 2..(Len(r) - 2) : IsWs(r[j]) /\ IsWs(r[j + 1])
          /\ {NBSP, "\t", "\n"} \subseteq {r[j].c : j \in 1..Len(r)}
    /\ Done /\ ret.kind = "dict" /\ ret.val[seen[m].num] = seen[m].text

\* The document with the label of item k replaced.
Relabel(h, k, label) == [h EXCEPT !.items[k].txt = label]
BadMarkers == {k \in 1..Len(html.items) :
                 html.items[k].kind = "verse" /\ ~Parseable(Stamp(html.items[k].txt, 0))}
GoodLabels == {l \in LabelPool \cup TreeLabels : Parseable(Stamp(l, 0))}

\* C10: a marker whose label is no integer is skipped: whatever integer its
\* label is replaced by, the entries of every other number are those returned.
C10_BadLabelSkipped ==
  Done =>
    \A k \in BadMarkers : \A l \in GoodLabels :
      LET other == ExtractVerses(Relabel(html, k, l))
          n == IntParse(Stamp(l, 0)).val
      IN /\ Keys \ {n} = DOMAIN other.val \ {n}
         /\ \A key \in Keys \ {n} : ret.val[key] = other.val[key]

\* A mapping is returned for a document in which text follows a marker whose
\* label is no integer and a marker of parseable label has text.
C10_Witness ==
  /\ Done /\ ret.kind = "dict"
  /\ \E m \in Marks : ~seen[m].ok /\ \E k \in MetBy(m) : ~soup[k].isTag /\ soup[k].parent = 0
                                        /\ Letters(soup[k].text) # <<>>

\* The books of the index as the specification reads them: the code of the
\* chapter files, the first chapter and the width of its number.
Expected(name) ==
  CASE name = "Genesis" -> [base |-> <<"G">>, start |-> 1, width |-> 2]
    [] name = "Jude" -> [base |-> <<"J">>, start |-> 9, width |-> 1]
    [] OTHER -> [base |-> <<>>, start |-> 0, width |-> 0]

LinkIds == 1..Len(index.links)
NameOf(b) == index.links[b].name

\* The chapter files asked for under link b, in the order asked.
Reqs(b) ==
  LET ks == SeqOf({k \in 1..Len(requests) : requests[k].link = b})
  IN [j \in 1..Len(ks) |-> requests[ks[j]]]

\* The digits of num, padded with zeros to at least width, between a prefix
\* and a suffix.
Numbered2(name, prefix, num, width, suffix) ==
  LET ds == SubSeq(name, Len(prefix) + 1, Len(name) - 1)
  IN /\ Len(name) >= Len(prefix) + 2
     /\ SubSeq(name, 1, Len(prefix)) = prefix
     /\ name[Len(name)] = suffix
     /\ \A j \in 1..Len(ds) : ds[j] \in DigitChars
     /\ DigitsValue(ds, 0) = num
     /\ Len(ds) >= width
     /\ Len(ds) > width /\ Len(ds) > 1 => ds[1] # "0"

Persisted(b, num) ==
  \E f \in files : f.dir = NameOf(b) /\ Numbered2(f.file, <<>>, num, 1, JSON)

InOrder(b, R) ==
  \A j \in 1..Len(R) :
    /\ R[j].num = Expected(NameOf(b)).start + j - 1
    /\ Numbered2(R[j].name, Expected(NameOf(b)).base, R[j].num,
                 Expected(NameOf(b)).width, HTM)

EndsAtMissing(b, R) ==
  \A j \in 1..Len(R) : R[j].outcome = "absent" => j = Len(R) /\ li > b

Ended(R) == R # <<>> /\ R[Len(R)].outcome = "absent"
Before(R) == 1..(Len(R) - 1)

\* The book of link b has exactly the files of the chapters asked for before
\* the missing one, and is counted with that many chapters.
AllWritten(b, R) ==
  /\ \A f \in files : f.dir = NameOf(b) =>
       \E j \in Before(R) : Numbered2(f.file, <<>>, R[j].num, 1, JSON)
  /\ \A j \in Before(R) : Persisted(b, R[j].num)
  /\ R[Len(R)].saved = Len(R) - 1

Closed == {b \in LinkIds : li > b /\ Reqs(b) # <<>>}
SavedOf(b) == LET R == Reqs(b) IN R[Len(R)].saved

RECURSIVE SumSaved(_)
SumSaved(bs) ==
  IF bs = {} THEN 0
  ELSE LET b == CHOOSE x \in bs : TRUE IN SavedOf(b) + SumSaved(bs \ {b})

Counted ==
  /\ processed_books_count = Cardinality({b \in Closed : SavedOf(b) > 0})
  /\ total_chapters_saved = SumSaved(Closed)

Barren == {b \in LinkIds : \A j \in 1..Len(Reqs(b)) : Reqs(b)[j].got # "dict"}

\* C8: a book none of whose chapters gave verses has no directory and no file,
\* at any point of the run.
C8_NoDirWithoutVerses ==
  \A b \in Barren : NameOf(b) \notin dirs /\ \A f \in files : f.dir # NameOf(b)

\* A book is over, chapters of it were read and none gave verses; another
\* book has its directory.
C8_Witness ==
  /\ \E b \in Barren : li > b /\ \E j \in 1..Len(Reqs(b)) : Reqs(b)[j].got = "none"
  /\ dirs # {}

Logged(what, r) ==
  \E k \in 1..Len(log) : log[k] = [what |-> what, link |-> r.link, num |-> r.num]

\* The request k is followed by one for the next chapter of its book, or the
\* walker stands before that chapter.
GoesOn(k) ==
  IF k < Len(requests)
  THEN requests[k + 1].link = requests[k].link /\ requests[k + 1].num = requests[k].num + 1
  ELSE wpc = "chapter" /\ li = requests[k].link /\ chapter_num = requests[k].num + 1

\* C9 as stated: a chapter that cannot be read or written is logged and
\* skipped, and the walker goes on with the next chapter of the book.
C9_FailureSkipsChapter ==
  \A k \in 1..Len(requests) :
    /\ requests[k].outcome = "writefail" => Logged("write", requests[k]) /\ GoesOn(k)
    /\ requests[k].outcome = "unreadable" => Logged("read", requests[k]) /\ GoesOn(k)

\* C9: a chapter whose write fails is logged and skipped, and the walker goes on
\* with the next chapter of the book; a chapter file that cannot be read is
\* logged and ends its book: no later chapter of the book is asked for, and the
\* run goes on with the next link.
C9_WriteFailureSkipsChapter ==
  \A k \in 1..Len(requests) :
    /\ requests[k].outcome = "writefail" => Logged("write", requests[k]) /\ GoesOn(k)
    /\ requests[k].outcome = "unreadable" =>
         /\ Logged("read", requests[k])
         /\ \A j \in (k + 1)..Len(requests) : requests[j].link > requests[k].link
         /\ li > requests[k].link
         /\ wpc \in {"links", "chapter", "done"}
         /\ wpc = "done" => success = TRUE

\* A write failed and the next chapter of the book was saved; a chapter could
\* not be read and a chapter of the next book was saved.
C9_Witness ==
  /\ \E k \in 1..(Len(requests) - 1) :
       /\ requests[k].outcome = "writefail"
       /\ requests[k + 1].outcome = "saved" /\ requests[k + 1].link = requests[k].link
  /\ \E k \in 1..Len(requests) : \E j \in (k + 1)..Len(requests) :
       /\ requests[k].outcome = "unreadable"
       /\ requests[j].outcome = "saved" /\ requests[j].link > requests[k].link
  /\ wpc = "done" /\ success = TRUE

====
